---------------------------- MODULE Spec2Model ----------------------------
(***************************************************************************)
(* finSight backend: the request gate (authMiddleware), the token service  *)
(* (generateToken / verifyToken), the auth controller (register / login)   *)
(* and the asset controller (getAssets / addAsset / updateAsset /          *)
(* deleteAsset) over the user store and the asset store.                   *)
(*                                                                         *)
(* Every handler is an async function: the code between two awaits runs    *)
(* without interruption, and every await on a store call is a point where  *)
(* the steps of other requests may run.  A handler is therefore one action *)
(* per store call, the synchronous code after a store call belonging to    *)
(* the same action as the call.                                            *)
(***************************************************************************)
EXTENDS Integers, Sequences, FiniteSets, Bags, TLC

VARIABLES
    users,        \* the User table: a set of rows
    assets,       \* the Asset table: a set of rows
    nextUserId,   \* autoincrement of User.id
    nextAssetId,  \* autoincrement of Asset.id
    now,          \* the server clock, Date.now(), in milliseconds
    inflight,     \* the handlers suspended at an await: a bag of their frames
    resp,         \* the last response sent, with the request it answers
    issued,       \* token service: the tokens issued, with their issue time
    verified      \* token service: the last verifyToken call and its result

vars == <<users, assets, nextUserId, nextAssetId, now, inflight, resp, issued, verified>>

-----------------------------------------------------------------------------
(* Bounds of the model.                                                    *)

\* Requests that may be suspended at an await at the same time.
MaxInflight == 2
\* Rows the Asset table may ever have been given (autoincrement ids 1..MaxAssetId).
MaxAssetId == 2
\* Rows the User table may ever have been given.
MaxUserId == 3
\* Tokens the token service issues in one behaviour of SpecToken.
MaxIssued == 1

-----------------------------------------------------------------------------
(* JSON / JavaScript values.  A string is a tagged value; a key missing    *)
(* from a request body reads as undefined.  Symbols are sequences of       *)
(* characters, because the code converts them character by character.     *)

Undefined == [t |-> "undefined"]
Null == [t |-> "null"]
Str(s) == [t |-> "string", v |-> s]
Num(n) == [t |-> "number", v |-> n]

\* JavaScript truthiness of a JSON string, null or undefined: !x is false
\* exactly for a non-empty string.
Truthy(x) == x.t = "string" /\ Len(x.v) > 0

\* Mutant of OrElse: the left operand is taken whatever it is.
OrElse_Left(x, y) == x

\* x || y
OrElse(x, y) == IF Truthy(x) THEN x ELSE y

\* String.prototype.toUpperCase on one character of the modelled alphabet.
UpperChar(c) ==
    CASE c = "a" -> "A"
      [] c = "b" -> "B"
      [] OTHER -> c

\* Mutant of toUpperCase: the string is left as it is.
toUpperCase_Unchanged(x) == x

\* String.prototype.toUpperCase
toUpperCase(x) == Str([i \in 1 .. Len(x.v) |-> UpperChar(x.v[i])])

\* The value parseInt gives when it can read no digit.
NaN == [t |-> "NaN"]

\* The value of a character as a digit; 16 for a character that is a digit
\* in neither radix.
DigitValue(c) ==
    CASE c = "0" -> 0
      [] c = "1" -> 1
      [] c = "2" -> 2
      [] c = "3" -> 3
      [] c = "4" -> 4
      [] c = "5" -> 5
      [] c = "6" -> 6
      [] c = "7" -> 7
      [] c = "8" -> 8
      [] c = "9" -> 9
      [] c \in {"a", "A"} -> 10
      [] c \in {"b", "B"} -> 11
      [] c \in {"c", "C"} -> 12
      [] c \in {"d", "D"} -> 13
      [] c \in {"e", "E"} -> 14
      [] c \in {"f", "F"} -> 15
      [] OTHER -> 16

\* The characters parseInt strips from the front of its argument: the
\* WhiteSpace and LineTerminator characters of ECMAScript.  A character
\* that has no escape in a TLA+ string is written as its code point.
WhiteSpace ==
    {" ", "\t", "\n", "\r", "\f", "U+000B", "U+00A0", "U+FEFF",
     "U+1680", "U+2000", "U+2001", "U+2002", "U+2003", "U+2004", "U+2005",
     "U+2006", "U+2007", "U+2008", "U+2009", "U+200A", "U+2028", "U+2029",
     "U+202F", "U+205F", "U+3000"}

RECURSIVE SkipWhiteSpace(_, _)
\* The position of the first character of s from position i on that is no
\* white space.
SkipWhiteSpace(s, i) ==
    IF i <= Len(s) /\ s[i] \in WhiteSpace THEN SkipWhiteSpace(s, i + 1) ELSE i

RECURSIVE ParseDigits(_, _, _, _, _)
\* The number read in the radix from the digits of s from position i on:
\* acc so far, any telling whether a digit has been read.
ParseDigits(s, i, radix, acc, any) ==
    IF i > Len(s) \/ DigitValue(s[i]) >= radix
    THEN [n |-> acc, any |-> any]
    ELSE ParseDigits(s, i + 1, radix, acc * radix + DigitValue(s[i]), TRUE)

\* parseInt(req.params.id), no radix given: leading white space is skipped,
\* a sign is read, a prefix 0x or 0X selects radix 16 (radix 10 otherwise),
\* and the digits up to the first character that is none are the number;
\* NaN without any digit.
parseInt(s) ==
    LET start == SkipWhiteSpace(s, 1)
        signed == start <= Len(s) /\ s[start] \in {"+", "-"}
        negative == signed /\ s[start] = "-"
        first == IF signed THEN start + 1 ELSE start
        hex == first + 1 <= Len(s) /\ s[first] = "0" /\ s[first + 1] \in {"x", "X"}
        d == IF hex THEN ParseDigits(s, first + 2, 16, 0, FALSE)
                    ELSE ParseDigits(s, first, 10, 0, FALSE)
    IN IF ~d.any THEN NaN
       ELSE Num(IF negative THEN 0 - d.n ELSE d.n)

-----------------------------------------------------------------------------
(* Messages of the responses (the source's texts, in English).             *)

ErrNoToken == "no token provided"                 \* '未提供认证令牌'
ErrBadToken == "invalid or expired token"         \* '无效或过期的令牌'
ErrUnauthorized == "unauthorized"                 \* '未授权'
ErrServer == "server error"                       \* '服务器错误'
ErrAssetRequired == "symbol, name and type are required"  \* '资产代码、名称和类型都是必填项'
ErrAssetExists == "asset already in your list"    \* '该资产已在您的列表中'
ErrAssetNotFound == "asset not found"             \* '资产不存在'
MsgAssetAdded == "asset added"                    \* '资产添加成功'
MsgAssetUpdated == "asset updated"                \* '资产更新成功'
MsgAssetDeleted == "asset deleted"                \* '资产删除成功'
ErrRegisterRequired == "email, username and password are required"  \* '邮箱、用户名和密码都是必填项'
ErrPasswordShort == "password must have at least 6 characters"      \* '密码长度至少为 6 位'
ErrEmailTaken == "email already registered"       \* '该邮箱已被注册'
ErrUsernameTaken == "username already used"       \* '该用户名已被使用'
ErrLoginRequired == "email/username and password are required"      \* '邮箱/用户名和密码都是必填项'
ErrInvalidCredentials == "wrong username/email or password"         \* '用户名/邮箱或密码错误'
MsgRegistered == "registered"                     \* '注册成功'
MsgLoggedIn == "logged in"                        \* '登录成功'

\* res.status(s).json({ error: e })
ErrorResponse(s, e) == [status |-> s, body |-> [error |-> e]]

-----------------------------------------------------------------------------
(* Token service.                                                          *)

\* process.env.JWT_SECRET || 'your-secret-key'
JWT_SECRET == "your-secret-key"
\* A key that is not the server's: what a forged token is signed with.
OtherKey == "not-the-server-key"

\* expiresIn: '7d', in seconds
ExpiresInSec == 604800

\* jsonwebtoken's timestamp: Math.floor(Date.now() / 1000)
NumericDate(ms) == ms \div 1000

\* jwt.sign(payload, key, { expiresIn: '7d' }) at clock time ms: the payload
\* with iat and exp, signed with key.
Sign(payload, key, ms) ==
    [t |-> "jwt",
     payload |-> payload,
     iat |-> NumericDate(ms),
     exp |-> NumericDate(ms) + ExpiresInSec,
     key |-> key]

\* Mutant of generateToken: the token lives twice as long.
generateToken_LongLived(payload, ms) ==
    [Sign(payload, JWT_SECRET, ms) EXCEPT !.exp = @ + ExpiresInSec]

\* generateToken(payload), called when the clock shows ms.
generateToken(payload, ms) == Sign(payload, JWT_SECRET, ms)

\* A string that is no JWT.
Garbage == [t |-> "garbage"]

\* jwt.verify throws
Thrown == [ok |-> FALSE]

\* verifyToken(token), called when the clock shows ms: the decoded claims,
\* or Thrown for a malformed token, a signature of another key, or a token
\* whose exp is at or before the clock's second.
verifyToken(token, ms) ==
    IF token.t # "jwt" THEN Thrown
    ELSE IF token.key # JWT_SECRET THEN Thrown
    ELSE IF NumericDate(ms) >= token.exp THEN Thrown
    ELSE [ok |-> TRUE,
          userId |-> token.payload.userId,
          email |-> token.payload.email,
          username |-> token.payload.username,
          iat |-> token.iat,
          exp |-> token.exp]

-----------------------------------------------------------------------------
(* Request gate.  An Authorization header is its first seven characters    *)
(* and the rest (authHeader.substring(7)).                                 *)

NoHeader == [t |-> "absent"]
Header(prefix, rest) == [t |-> "header", prefix |-> prefix, rest |-> rest]
Bearer(token) == Header("Bearer ", token)

\* Mutant of NotBearer: the scheme is compared without regard to case.
NotBearer_AnyCase(hdr) == hdr.t = "absent" \/ hdr.prefix \notin {"Bearer ", "bearer "}

\* !authHeader || !authHeader.startsWith('Bearer ')
NotBearer(hdr) == hdr.t = "absent" \/ hdr.prefix # "Bearer "

\* authMiddleware at clock time ms: next() with req.user set, or a 401.
authMiddleware(hdr, ms) ==
    IF NotBearer(hdr)
    THEN [next |-> FALSE, res |-> ErrorResponse(401, ErrNoToken)]
    ELSE LET decoded == verifyToken(hdr.rest, ms) IN
         IF decoded.ok
         THEN [next |-> TRUE, user |-> decoded]
         ELSE [next |-> FALSE, res |-> ErrorResponse(401, ErrBadToken)]

-----------------------------------------------------------------------------
(* The stores.  A row that a lookup does not find reads as null.           *)

\* The first response slot of a behaviour: nothing sent yet.
NoRequest == [op |-> "none"]
NoResponse == [status |-> 0, body |-> [none |-> TRUE]]

\* The suspended handlers of pc among pcs.
Pending(pcs) ==
    BagCardinality([f \in {g \in BagToSet(inflight) : g.pc \in pcs} |-> inflight[f]])

\* The suspended handlers that may still insert an Asset row.
PendingCreates == Pending({"addAsset.findUnique", "addAsset.create"})

\* The suspended handlers that may still insert a User row.
PendingRegisters ==
    Pending({"register.findFirst", "register.hashPassword", "register.create"})

\* Another handler may be suspended.
FreeSlot == BagCardinality(inflight) < MaxInflight

\* The response sent for request req, whose gate ran at clock time at.
Respond(req, at, res) ==
    resp' = [seq |-> 1 - resp.seq, at |-> at, req |-> req, res |-> res]

\* prisma.asset.findUnique({ where: { id } })
AssetFindUniqueById(store, id) ==
    IF \E a \in store : a.id = id
    THEN CHOOSE a \in store : a.id = id
    ELSE Null

\* prisma.asset.findUnique({ where: { userId_symbol: { userId, symbol } } })
AssetFindUniqueByUserIdSymbol(store, userId, symbol) ==
    IF \E a \in store : a.userId = userId /\ a.symbol = symbol
    THEN CHOOSE a \in store : a.userId = userId /\ a.symbol = symbol
    ELSE Null

\* Mutant of UserIdSymbolFree: the table has no unique index on (userId, symbol).
UserIdSymbolFree_NoIndex(store, data) == TRUE

\* The unique index userId_symbol of the Asset table admits the row.
UserIdSymbolFree(store, data) ==
    ~ \E a \in store : a.userId = data.userId /\ a.symbol = data.symbol

\* prisma.asset.create({ data }) at clock time ms, id the next autoincrement
\* value: the new row and table, or a throw when the unique index rejects it.
AssetCreate(store, data, id, ms) ==
    IF UserIdSymbolFree(store, data)
    THEN LET row == [id |-> id,
                     userId |-> data.userId,
                     symbol |-> data.symbol,
                     name |-> data.name,
                     type |-> data.type,
                     notes |-> data.notes,
                     createdAt |-> ms,
                     updatedAt |-> ms]
         IN [ok |-> TRUE, row |-> row, store |-> store \cup {row}]
    ELSE [ok |-> FALSE]

\* Mutant of AssetUpdate: the where clause is dropped, every row is written.
AssetUpdate_EveryRow(store, id, data, ms) ==
    LET old == AssetFindUniqueById(store, id)
        Written(a) == [a EXCEPT !.name = data.name,
                                !.type = data.type,
                                !.notes = data.notes,
                                !.updatedAt = ms]
    IN IF old = Null
       THEN [ok |-> FALSE]
       ELSE [ok |-> TRUE, row |-> Written(old), store |-> {Written(a) : a \in store}]

\* prisma.asset.update({ where: { id }, data }) at clock time ms: the updated
\* row and table, or a throw when no row has the id.
AssetUpdate(store, id, data, ms) ==
    LET old == AssetFindUniqueById(store, id) IN
    IF old = Null
    THEN [ok |-> FALSE]
    ELSE LET row == [old EXCEPT !.name = data.name,
                                !.type = data.type,
                                !.notes = data.notes,
                                !.updatedAt = ms]
         IN [ok |-> TRUE, row |-> row, store |-> (store \ {old}) \cup {row}]

\* prisma.asset.delete({ where: { id } }): the table without the row, or a
\* throw when no row has the id.
AssetDelete(store, id) ==
    LET old == AssetFindUniqueById(store, id) IN
    IF old = Null
    THEN [ok |-> FALSE]
    ELSE [ok |-> TRUE, store |-> store \ {old}]

\* The orders in which a set of rows can be listed.
Listings(S) ==
    {f \in [1 .. Cardinality(S) -> S] : \A i, j \in 1 .. Cardinality(S) : f[i] = f[j] => i = j}

\* Mutant of AssetFindMany: the rows of every user are listed.
AssetFindMany_AllUsers(store, userId) ==
    {f \in Listings(store) :
        \A i, j \in 1 .. Len(f) : i < j => f[i].createdAt >= f[j].createdAt}

\* prisma.asset.findMany({ where: { userId }, orderBy: { createdAt: 'desc' } }):
\* the lists the store may return (rows of equal createdAt in either order).
AssetFindMany(store, userId) ==
    {f \in Listings({a \in store : a.userId = userId}) :
        \A i, j \in 1 .. Len(f) : i < j => f[i].createdAt >= f[j].createdAt}

-----------------------------------------------------------------------------
(* Asset controller.  Each handler up to and including its first store     *)
(* call is an operator giving either the response (done) or what the       *)
(* handler holds while suspended at its second store call.                 *)

\* The catch block of every handler: res.status(500).json({ error: '服务器错误' })
ServerError == ErrorResponse(500, ErrServer)

\* !userId
NoUserId(user) == user.userId = 0

\* getAssets: the responses it may send.
getAssets(store, user) ==
    IF NoUserId(user)
    THEN {ErrorResponse(401, ErrUnauthorized)}
    ELSE {[status |-> 200, body |-> [assets |-> l]] : l \in AssetFindMany(store, user.userId)}

\* !symbol || !name || !type
addAssetMissingField(body) ==
    ~Truthy(body.symbol) \/ ~Truthy(body.name) \/ ~Truthy(body.type)

\* The response of the pre-check when the asset exists already.
addAssetConflict == ErrorResponse(400, ErrAssetExists)

\* addAsset up to the findUnique pre-check and the branch on its result.
addAssetCheck(store, user, body) ==
    IF NoUserId(user)
    THEN [done |-> TRUE, res |-> ErrorResponse(401, ErrUnauthorized)]
    ELSE IF addAssetMissingField(body)
    THEN [done |-> TRUE, res |-> ErrorResponse(400, ErrAssetRequired)]
    ELSE LET existingAsset ==
                 AssetFindUniqueByUserIdSymbol(store, user.userId, toUpperCase(body.symbol))
         IN IF existingAsset # Null
            THEN [done |-> TRUE, res |-> addAssetConflict]
            ELSE [done |-> FALSE,
                  data |-> [userId |-> user.userId,
                            symbol |-> toUpperCase(body.symbol),
                            name |-> body.name,
                            type |-> body.type,
                            notes |-> OrElse(body.notes, Null)]]

\* The response of addAsset when prisma.asset.create throws: the catch block.
addAssetCreateThrows == ServerError

\* addAsset from prisma.asset.create on.
addAssetCreate(store, data, id, ms) ==
    LET c == AssetCreate(store, data, id, ms) IN
    IF c.ok
    THEN [store |-> c.store,
          created |-> TRUE,
          res |-> [status |-> 201, body |-> [message |-> MsgAssetAdded, asset |-> c.row]]]
    ELSE [store |-> store, created |-> FALSE, res |-> addAssetCreateThrows]

\* Mutant of NotOwnAsset: the owner of the asset is not compared.
NotOwnAsset_AnyOwner(asset, userId) == asset = Null

\* !asset || asset.userId !== userId
NotOwnAsset(asset, userId) == asset = Null \/ asset.userId # userId

\* The response of updateAsset and deleteAsset to an asset that is not the caller's.
AssetNotFound == ErrorResponse(404, ErrAssetNotFound)

\* Mutant of updateAssetNotOwn: another user's asset is reported as forbidden.
updateAssetNotOwn_Forbidden(asset) ==
    IF asset = Null THEN AssetNotFound ELSE ErrorResponse(403, ErrUnauthorized)

\* The response of updateAsset for an asset that is not the caller's.
updateAssetNotOwn(asset) == AssetNotFound

\* updateAsset up to the findUnique and the branch on its result, assetId the
\* number parseInt gave; a NaN id makes findUnique throw.
updateAssetCheck(store, user, assetId, body) ==
    IF NoUserId(user)
    THEN [done |-> TRUE, res |-> ErrorResponse(401, ErrUnauthorized)]
    ELSE IF assetId = NaN
    THEN [done |-> TRUE, res |-> ServerError]
    ELSE LET asset == AssetFindUniqueById(store, assetId.v) IN
         IF NotOwnAsset(asset, user.userId)
         THEN [done |-> TRUE, res |-> updateAssetNotOwn(asset)]
         ELSE [done |-> FALSE,
               assetId |-> assetId.v,
               data |-> [name |-> OrElse(body.name, asset.name),
                         type |-> OrElse(body.type, asset.type),
                         notes |-> IF body.notes # Undefined THEN body.notes ELSE asset.notes]]

\* updateAsset from prisma.asset.update on.
updateAssetWrite(store, assetId, data, ms) ==
    LET u == AssetUpdate(store, assetId, data, ms) IN
    IF u.ok
    THEN [store |-> u.store,
          res |-> [status |-> 200, body |-> [message |-> MsgAssetUpdated, asset |-> u.row]]]
    ELSE [store |-> store, res |-> ServerError]

\* The response of deleteAsset for an asset that is not the caller's.
deleteAssetNotOwn(asset) == AssetNotFound

\* deleteAsset up to the findUnique and the branch on its result.
deleteAssetCheck(store, user, assetId) ==
    IF NoUserId(user)
    THEN [done |-> TRUE, res |-> ErrorResponse(401, ErrUnauthorized)]
    ELSE IF assetId = NaN
    THEN [done |-> TRUE, res |-> ServerError]
    ELSE LET asset == AssetFindUniqueById(store, assetId.v) IN
         IF NotOwnAsset(asset, user.userId)
         THEN [done |-> TRUE, res |-> deleteAssetNotOwn(asset)]
         ELSE [done |-> FALSE, assetId |-> assetId.v]

\* Mutant of deleteAssetWrite: the row is deleted and the answer is not found.
deleteAssetWrite_NotFound(store, assetId) ==
    LET d == AssetDelete(store, assetId) IN
    IF d.ok
    THEN [store |-> d.store, res |-> AssetNotFound]
    ELSE [store |-> store, res |-> ServerError]

\* deleteAsset from prisma.asset.delete on.
deleteAssetWrite(store, assetId) ==
    LET d == AssetDelete(store, assetId) IN
    IF d.ok
    THEN [store |-> d.store, res |-> [status |-> 200, body |-> [message |-> MsgAssetDeleted]]]
    ELSE [store |-> store, res |-> ServerError]

-----------------------------------------------------------------------------
(* Auth controller and the User table.                                     *)

\* hashPassword: a one-way function of the password.
hashPassword(password) == [bcrypt |-> password.v]

\* comparePassword(password, hash)
comparePassword(password, hash) == hash = hashPassword(password)

\* prisma.user.findFirst({ where: { OR: [{ email }, { username }] } }): the rows
\* the store may return, null alone when no row matches.  No orderBy is given,
\* so any matching row may be the first.
UserFindFirst(store, email, username) ==
    LET matching == {u \in store : u.email = email \/ u.username = username} IN
    IF matching = {} THEN {Null} ELSE matching

\* Mutant of EmailUsernameFree: the table has no unique index.
EmailUsernameFree_NoIndex(store, data) == TRUE

\* The unique indexes of the User table (email, username) admit the row.
EmailUsernameFree(store, data) ==
    ~ \E u \in store : u.email = data.email \/ u.username = data.username

\* prisma.user.create({ data }) at clock time ms, id the next autoincrement
\* value: the new row and table, or a throw when a unique index rejects it.
UserCreate(store, data, id, ms) ==
    IF EmailUsernameFree(store, data)
    THEN LET row == [id |-> id,
                     email |-> data.email,
                     username |-> data.username,
                     password |-> data.password,
                     createdAt |-> ms]
         IN [ok |-> TRUE, row |-> row, store |-> store \cup {row}]
    ELSE [ok |-> FALSE]

\* !email || !username || !password
registerMissingField(body) ==
    ~Truthy(body.email) \/ ~Truthy(body.username) \/ ~Truthy(body.password)

\* Mutant of registerPasswordShort: a password of 6 characters is short too.
registerPasswordShort_SixToo(body) == Len(body.password.v) <= 6

\* password.length < 6
registerPasswordShort(body) == Len(body.password.v) < 6

\* Mutant of registerConflict: one message for both conflicts.
registerConflict_OneMessage(existingUser, body) ==
    IF existingUser.email = body.email \/ existingUser.username = body.username
    THEN ErrorResponse(400, ErrEmailTaken)
    ELSE NoResponse

\* The body of if (existingUser): the email is compared first, then the
\* username; NoResponse when neither return is taken.
registerConflict(existingUser, body) ==
    IF existingUser.email = body.email
    THEN ErrorResponse(400, ErrEmailTaken)
    ELSE IF existingUser.username = body.username
    THEN ErrorResponse(400, ErrUsernameTaken)
    ELSE NoResponse

\* register up to the findFirst, which returned existingUser, and the branch
\* on its result.
\* The data register hands to prisma.user.create: email and username as
\* sent, the password hashed.
registerData(body) ==
    [email |-> body.email,
     username |-> body.username,
     password |-> hashPassword(body.password)]

registerCheck(existingUser, body) ==
    IF registerMissingField(body)
    THEN [done |-> TRUE, res |-> ErrorResponse(400, ErrRegisterRequired)]
    ELSE IF registerPasswordShort(body)
    THEN [done |-> TRUE, res |-> ErrorResponse(400, ErrPasswordShort)]
    ELSE IF existingUser # Null /\ registerConflict(existingUser, body) # NoResponse
    THEN [done |-> TRUE, res |-> registerConflict(existingUser, body)]
    ELSE [done |-> FALSE, data |-> registerData(body)]

\* Mutant of TokenPayload: email and username are exchanged.
TokenPayload_Swapped(user) == [userId |-> user.id, email |-> user.username, username |-> user.email]

\* The claims register and login sign for a user row.
TokenPayload(user) == [userId |-> user.id, email |-> user.email, username |-> user.username]

\* register: prisma.user.create as the store executes it at clock time ms,
\* the row selected for the handler or the throw.
registerCreate(store, data, id, ms) ==
    LET c == UserCreate(store, data, id, ms) IN
    IF c.ok
    THEN [store |-> c.store,
          created |-> TRUE,
          user |-> [id |-> c.row.id,
                    email |-> c.row.email,
                    username |-> c.row.username,
                    createdAt |-> c.row.createdAt]]
    ELSE [store |-> store, created |-> FALSE, user |-> Null]

\* register once prisma.user.create has returned user, or thrown (created
\* false), the handler resuming at clock time ms: the token is signed then.
registerResponse(created, user, ms) ==
    IF created
    THEN [status |-> 201,
          body |-> [message |-> MsgRegistered,
                    user |-> user,
                    token |-> generateToken(TokenPayload(user), ms)]]
    ELSE ServerError

\* Mutant of loginNoUser: an unknown identifier is reported as not found.
loginNoUser_NotFound == ErrorResponse(404, ErrInvalidCredentials)

\* The response of login when findFirst returns no user.
loginNoUser == ErrorResponse(401, ErrInvalidCredentials)

\* The response of login when the password does not match the row's hash.
loginWrongPassword == ErrorResponse(401, ErrInvalidCredentials)

\* login, its findFirst having returned user, at clock time ms.
login(user, body, ms) ==
    IF ~Truthy(body.emailOrUsername) \/ ~Truthy(body.password)
    THEN ErrorResponse(400, ErrLoginRequired)
    ELSE IF user = Null
    THEN loginNoUser
    ELSE IF ~comparePassword(body.password, user.password)
    THEN loginWrongPassword
    ELSE [status |-> 200,
          body |-> [message |-> MsgLoggedIn,
                    user |-> [id |-> user.id, email |-> user.email, username |-> user.username],
                    token |-> generateToken(TokenPayload(user), ms)]]

-----------------------------------------------------------------------------
(* The actions: the router's dispatch of one request, and the resumption   *)
(* of a suspended handler.                                                 *)

stores == <<users, assets, nextUserId, nextAssetId>>
tokenLog == <<issued, verified>>

\* A handler reaches an await with frame f; the handler of frame f resumes
\* and returns; the handler of frame f resumes and reaches its next await
\* with frame g.
Suspend(f) == inflight' = inflight (+) SetToBag({f})
Resume(f) == inflight' = inflight (-) SetToBag({f})
Proceed(f, g) == inflight' = (inflight (-) SetToBag({f})) (+) SetToBag({g})

\* req.user of a suspended handler: what the gate decoded when it let the
\* request through, at clock time f.at.
FrameUser(f) == authMiddleware(f.req.hdr, f.at).user

\* The handler of frame f after its first store call answered: it returns
\* with the response of outcome o, or goes on to its write with frame g.
AfterRead(f, o, g) ==
    IF o.done
    THEN Respond(f.req, f.at, o.res) /\ Resume(f)
    ELSE Proceed(f, g) /\ UNCHANGED resp

\* GET /api/assets: the gate and the handler up to the await of
\* prisma.asset.findMany
GetAssetsStart(hdr) ==
    LET req == [op |-> "getAssets", hdr |-> hdr]
        gate == authMiddleware(hdr, now)
    IN /\ FreeSlot
       /\ IF ~gate.next
          THEN Respond(req, now, gate.res) /\ UNCHANGED inflight
          ELSE IF NoUserId(gate.user)
          THEN /\ \E res \in getAssets(assets, gate.user) : Respond(req, now, res)
               /\ UNCHANGED inflight
          ELSE /\ Suspend([pc |-> "getAssets.findMany", req |-> req, at |-> now])
               /\ UNCHANGED resp
       /\ UNCHANGED <<stores, now, tokenLog>>

\* GET /api/assets, from prisma.asset.findMany to the response
GetAssetsFindMany(f) ==
    /\ BagIn(f, inflight)
    /\ f.pc = "getAssets.findMany"
    /\ \E res \in getAssets(assets, FrameUser(f)) : Respond(f.req, f.at, res)
    /\ Resume(f)
    /\ UNCHANGED <<stores, now, tokenLog>>

\* POST /api/assets: the gate and the handler up to the await of
\* prisma.asset.findUnique
AddAssetStart(hdr, body) ==
    LET req == [op |-> "addAsset", hdr |-> hdr, body |-> body]
        gate == authMiddleware(hdr, now)
    IN /\ FreeSlot
       /\ nextAssetId + PendingCreates <= MaxAssetId
       /\ IF ~gate.next
          THEN Respond(req, now, gate.res) /\ UNCHANGED inflight
          ELSE IF NoUserId(gate.user) \/ addAssetMissingField(body)
          THEN /\ Respond(req, now, addAssetCheck(assets, gate.user, body).res)
               /\ UNCHANGED inflight
          ELSE /\ Suspend([pc |-> "addAsset.findUnique", req |-> req, at |-> now])
               /\ UNCHANGED resp
       /\ UNCHANGED <<stores, now, tokenLog>>

\* POST /api/assets, from prisma.asset.findUnique to the conflict response
\* or the await of prisma.asset.create
AddAssetFindUnique(f) ==
    /\ BagIn(f, inflight)
    /\ f.pc = "addAsset.findUnique"
    /\ LET o == addAssetCheck(assets, FrameUser(f), f.req.body) IN
       AfterRead(f, o, [pc |-> "addAsset.create", req |-> f.req, at |-> f.at,
                        data |-> o.data])
    /\ UNCHANGED <<stores, now, tokenLog>>

\* POST /api/assets, from prisma.asset.create to the response
AddAssetCreate(f) ==
    /\ BagIn(f, inflight)
    /\ f.pc = "addAsset.create"
    /\ LET o == addAssetCreate(assets, f.data, nextAssetId, now) IN
       /\ assets' = o.store
       /\ nextAssetId' = IF o.created THEN nextAssetId + 1 ELSE nextAssetId
       /\ Respond(f.req, f.at, o.res)
    /\ Resume(f)
    /\ UNCHANGED <<users, nextUserId, now, tokenLog>>

\* PUT /api/assets/:id: the gate and the handler up to the await of
\* prisma.asset.findUnique
UpdateAssetStart(hdr, id, body) ==
    LET req == [op |-> "updateAsset", hdr |-> hdr, id |-> id, body |-> body]
        gate == authMiddleware(hdr, now)
    IN /\ FreeSlot
       /\ IF ~gate.next
          THEN Respond(req, now, gate.res) /\ UNCHANGED inflight
          ELSE IF NoUserId(gate.user)
          THEN /\ Respond(req, now, updateAssetCheck(assets, gate.user, parseInt(id), body).res)
               /\ UNCHANGED inflight
          ELSE /\ Suspend([pc |-> "updateAsset.findUnique", req |-> req, at |-> now])
               /\ UNCHANGED resp
       /\ UNCHANGED <<stores, now, tokenLog>>

\* PUT /api/assets/:id, from prisma.asset.findUnique to the not-found
\* response, the throw for a NaN id, or the await of prisma.asset.update
UpdateAssetFindUnique(f) ==
    /\ BagIn(f, inflight)
    /\ f.pc = "updateAsset.findUnique"
    /\ LET o == updateAssetCheck(assets, FrameUser(f), parseInt(f.req.id), f.req.body) IN
       AfterRead(f, o, [pc |-> "updateAsset.update", req |-> f.req, at |-> f.at,
                        assetId |-> o.assetId, data |-> o.data])
    /\ UNCHANGED <<stores, now, tokenLog>>

\* PUT /api/assets/:id, from prisma.asset.update to the response
UpdateAssetWrite(f) ==
    /\ BagIn(f, inflight)
    /\ f.pc = "updateAsset.update"
    /\ LET o == updateAssetWrite(assets, f.assetId, f.data, now) IN
       /\ assets' = o.store
       /\ Respond(f.req, f.at, o.res)
    /\ Resume(f)
    /\ UNCHANGED <<users, nextUserId, nextAssetId, now, tokenLog>>

\* DELETE /api/assets/:id: the gate and the handler up to the await of
\* prisma.asset.findUnique
DeleteAssetStart(hdr, id) ==
    LET req == [op |-> "deleteAsset", hdr |-> hdr, id |-> id]
        gate == authMiddleware(hdr, now)
    IN /\ FreeSlot
       /\ IF ~gate.next
          THEN Respond(req, now, gate.res) /\ UNCHANGED inflight
          ELSE IF NoUserId(gate.user)
          THEN /\ Respond(req, now, deleteAssetCheck(assets, gate.user, parseInt(id)).res)
               /\ UNCHANGED inflight
          ELSE /\ Suspend([pc |-> "deleteAsset.findUnique", req |-> req, at |-> now])
               /\ UNCHANGED resp
       /\ UNCHANGED <<stores, now, tokenLog>>

\* DELETE /api/assets/:id, from prisma.asset.findUnique to the not-found
\* response, the throw for a NaN id, or the await of prisma.asset.delete
DeleteAssetFindUnique(f) ==
    /\ BagIn(f, inflight)
    /\ f.pc = "deleteAsset.findUnique"
    /\ LET o == deleteAssetCheck(assets, FrameUser(f), parseInt(f.req.id)) IN
       AfterRead(f, o, [pc |-> "deleteAsset.delete", req |-> f.req, at |-> f.at,
                        assetId |-> o.assetId])
    /\ UNCHANGED <<stores, now, tokenLog>>

\* DELETE /api/assets/:id, from prisma.asset.delete to the response
DeleteAssetWrite(f) ==
    /\ BagIn(f, inflight)
    /\ f.pc = "deleteAsset.delete"
    /\ LET o == deleteAssetWrite(assets, f.assetId) IN
       /\ assets' = o.store
       /\ Respond(f.req, f.at, o.res)
    /\ Resume(f)
    /\ UNCHANGED <<users, nextUserId, nextAssetId, now, tokenLog>>

\* POST /api/auth/register: the handler up to the await of
\* prisma.user.findFirst
RegisterStart(body) ==
    LET req == [op |-> "register", body |-> body] IN
    /\ FreeSlot
    /\ nextUserId + PendingRegisters <= MaxUserId
    /\ IF registerMissingField(body) \/ registerPasswordShort(body)
       THEN Respond(req, now, registerCheck(Null, body).res) /\ UNCHANGED inflight
       ELSE /\ Suspend([pc |-> "register.findFirst", req |-> req, at |-> now])
            /\ UNCHANGED resp
    /\ UNCHANGED <<stores, now, tokenLog>>

\* POST /api/auth/register, from prisma.user.findFirst to the conflict
\* response or the await of hashPassword
RegisterFindFirst(f) ==
    /\ BagIn(f, inflight)
    /\ f.pc = "register.findFirst"
    /\ \E existingUser \in UserFindFirst(users, f.req.body.email, f.req.body.username) :
          AfterRead(f, registerCheck(existingUser, f.req.body),
                    [pc |-> "register.hashPassword", req |-> f.req, at |-> f.at])
    /\ UNCHANGED <<stores, now, tokenLog>>

\* POST /api/auth/register, from hashPassword to the await of
\* prisma.user.create
RegisterHashPassword(f) ==
    /\ BagIn(f, inflight)
    /\ f.pc = "register.hashPassword"
    /\ Proceed(f, [pc |-> "register.create", req |-> f.req, at |-> f.at,
                   data |-> registerData(f.req.body)])
    /\ UNCHANGED <<stores, now, resp, tokenLog>>

\* POST /api/auth/register: the store executes prisma.user.create; the
\* handler has not resumed yet
RegisterCreate(f) ==
    /\ BagIn(f, inflight)
    /\ f.pc = "register.create"
    /\ LET o == registerCreate(users, f.data, nextUserId, now) IN
       /\ users' = o.store
       /\ nextUserId' = IF o.created THEN nextUserId + 1 ELSE nextUserId
       /\ Proceed(f, [pc |-> "register.created", req |-> f.req, at |-> f.at,
                      created |-> o.created, user |-> o.user])
    /\ UNCHANGED <<assets, nextAssetId, now, resp, tokenLog>>

\* POST /api/auth/register, from the return of prisma.user.create to the
\* response: generateToken reads the clock now
RegisterRespond(f) ==
    /\ BagIn(f, inflight)
    /\ f.pc = "register.created"
    /\ Respond(f.req, f.at, registerResponse(f.created, f.user, now))
    /\ Resume(f)
    /\ UNCHANGED <<stores, now, tokenLog>>

\* POST /api/auth/login: the handler up to the await of prisma.user.findFirst
LoginStart(body) ==
    LET req == [op |-> "login", body |-> body] IN
    /\ FreeSlot
    /\ IF ~Truthy(body.emailOrUsername) \/ ~Truthy(body.password)
       THEN Respond(req, now, login(Null, body, now)) /\ UNCHANGED inflight
       ELSE /\ Suspend([pc |-> "login.findFirst", req |-> req, at |-> now])
            /\ UNCHANGED resp
    /\ UNCHANGED <<stores, now, tokenLog>>

\* POST /api/auth/login, from prisma.user.findFirst to the response for no
\* user or the await of comparePassword
LoginFindFirst(f) ==
    /\ BagIn(f, inflight)
    /\ f.pc = "login.findFirst"
    /\ \E user \in UserFindFirst(users, f.req.body.emailOrUsername, f.req.body.emailOrUsername) :
          AfterRead(f, [done |-> user = Null, res |-> login(user, f.req.body, now)],
                    [pc |-> "login.comparePassword", req |-> f.req, at |-> f.at,
                     user |-> user])
    /\ UNCHANGED <<stores, now, tokenLog>>

\* POST /api/auth/login, from comparePassword to the response
LoginComparePassword(f) ==
    /\ BagIn(f, inflight)
    /\ f.pc = "login.comparePassword"
    /\ Respond(f.req, f.at, login(f.user, f.req.body, now))
    /\ Resume(f)
    /\ UNCHANGED <<stores, now, tokenLog>>

\* The clock advances to the later instant t.
Tick(t) ==
    /\ t > now
    /\ now' = t
    /\ UNCHANGED <<stores, inflight, resp, tokenLog>>

\* A call of generateToken(payload)
IssueToken(payload) ==
    /\ Cardinality(issued) < MaxIssued
    /\ issued' = issued \cup {[token |-> generateToken(payload, now), at |-> now]}
    /\ UNCHANGED <<stores, now, inflight, resp, verified>>

\* A call of verifyToken(token)
VerifyToken(token) ==
    /\ verified' = [token |-> token, at |-> now, result |-> verifyToken(token, now)]
    /\ UNCHANGED <<stores, now, inflight, resp, issued>>

-----------------------------------------------------------------------------
(* Inputs of the requests.                                                 *)

\* The clock time at which a token issued at time 0 has just expired.
ExpiryMs == ExpiresInSec * 1000

NoVerify == [token |-> Garbage, at |-> 0, result |-> Thrown]

InitCommon ==
    /\ assets = {}
    /\ nextAssetId = 1
    /\ inflight = EmptyBag
    /\ resp = [seq |-> 0, at |-> now, req |-> NoRequest, res |-> NoResponse]
    /\ issued = {}
    /\ verified = NoVerify

\* Two registered users: the User table after register has succeeded twice.
Alice ==
    UserCreate({}, [email |-> Str("a@x"), username |-> Str("alice"),
                    password |-> hashPassword(Str("secret"))], 1, 0).row
Bob ==
    UserCreate({Alice}, [email |-> Str("b@x"), username |-> Str("bob"),
                         password |-> hashPassword(Str("hunter22"))], 2, 0).row
SeedUsers == {Alice, Bob}

\* Authorization headers the gate turns away at clock time ms: none, another
\* scheme, a lower-case scheme before a good token, a bearer that is no JWT,
\* a JWT signed with another key, and a token the server issued that has
\* expired.
BadHeaders(ms) ==
    {NoHeader,
     Header("Basic ", Garbage),
     Header("bearer ", generateToken(TokenPayload(Alice), ms)),
     Bearer(Garbage),
     Bearer(Sign(TokenPayload(Alice), OtherKey, ms)),
     Bearer(generateToken(TokenPayload(Alice), ms - ExpiryMs))}

\* Authorization headers with the token the server issued to a registered
\* user at clock time ms.
GoodHeaders(ms) == {Bearer(generateToken(TokenPayload(u), ms)) : u \in SeedUsers}

DigitChar(n) ==
    CASE n = 0 -> "0"
      [] n = 1 -> "1"
      [] n = 2 -> "2"
      [] n = 3 -> "3"
      [] OTHER -> "4"

\* The :id path segments: the ids the table can hold and the next one, an id
\* followed by a letter, the hexadecimal spelling of 1, an id after a tab
\* (%09 in the path), and the hexadecimal prefix without a digit.
IdParams ==
    {<<DigitChar(i)>> : i \in 1 .. MaxAssetId}
    \cup {<<"1", "x">>, <<"0", "x", "1">>, <<"\t", "1">>, <<"0", "x">>}

AddBodies ==
    [symbol : {Undefined, Str(<<>>), Str(<<"a">>), Str(<<"A">>)},
     name : {Str("Apple")},
     type : {Str("stock")},
     notes : {Undefined}]

UpdateBodies ==
    [name : {Str("Apple Inc")},
     type : {Undefined},
     notes : {Undefined}]

\* What the requests of SpecGate carry besides their header.
AnyAddBody == [symbol |-> Str(<<"a">>), name |-> Str("Apple"), type |-> Str("stock"), notes |-> Undefined]
AnyUpdateBody == [name |-> Str("Apple Inc"), type |-> Undefined, notes |-> Undefined]
AnyId == <<"1">>

-----------------------------------------------------------------------------
(* SpecAsset: POST, PUT and DELETE under /api/assets for two registered    *)
(* users, each request carrying the token the server issued to its user:   *)
(* one user adds assets, both update and delete by id, and the requests    *)
(* overlap at their awaits.                                                *)

InitAsset ==
    /\ now = ExpiryMs
    /\ InitCommon
    /\ users = SeedUsers
    /\ nextUserId = 3

\* The Authorization header with the token issued to user u at clock time ms.
HeaderOf(u, ms) == Bearer(generateToken(TokenPayload(u), ms))

\* The :id path segments that are the decimal spelling of an id the table
\* can hold.
ListIds == {<<DigitChar(i)>> : i \in 1 .. MaxAssetId}

NextAsset ==
    \/ AddAssetStart(HeaderOf(Alice, now), AnyAddBody)
    \/ \E f \in BagToSet(inflight) : AddAssetFindUnique(f)
    \/ \E f \in BagToSet(inflight) : AddAssetCreate(f)
    \/ \E hdr \in GoodHeaders(now), id \in ListIds, body \in UpdateBodies :
          UpdateAssetStart(hdr, id, body)
    \/ \E f \in BagToSet(inflight) : UpdateAssetFindUnique(f)
    \/ \E f \in BagToSet(inflight) : UpdateAssetWrite(f)
    \/ \E hdr \in GoodHeaders(now), id \in ListIds : DeleteAssetStart(hdr, id)
    \/ \E f \in BagToSet(inflight) : DeleteAssetFindUnique(f)
    \/ \E f \in BagToSet(inflight) : DeleteAssetWrite(f)

SpecAsset == InitAsset /\ [][NextAsset]_vars

-----------------------------------------------------------------------------
(* SpecCase: POST and DELETE under /api/assets for two registered users,   *)
(* the symbols of the requests absent, empty, and one letter in either     *)
(* case.                                                                   *)

NextCase ==
    \/ \E hdr \in GoodHeaders(now), body \in AddBodies : AddAssetStart(hdr, body)
    \/ \E f \in BagToSet(inflight) : AddAssetFindUnique(f)
    \/ \E f \in BagToSet(inflight) : AddAssetCreate(f)
    \/ \E hdr \in GoodHeaders(now), id \in ListIds : DeleteAssetStart(hdr, id)
    \/ \E f \in BagToSet(inflight) : DeleteAssetFindUnique(f)
    \/ \E f \in BagToSet(inflight) : DeleteAssetWrite(f)

SpecCase == InitAsset /\ [][NextCase]_vars

-----------------------------------------------------------------------------
(* SpecIds: PUT and DELETE /api/assets/:id by the owner of the assets,     *)
(* with the :id segment in the spellings parseInt reads as a number and    *)
(* in one it does not, the requests overlapping at their awaits.           *)

NextIds ==
    \/ AddAssetStart(HeaderOf(Alice, now), AnyAddBody)
    \/ \E f \in BagToSet(inflight) : AddAssetFindUnique(f)
    \/ \E f \in BagToSet(inflight) : AddAssetCreate(f)
    \/ \E id \in IdParams : UpdateAssetStart(HeaderOf(Alice, now), id, AnyUpdateBody)
    \/ \E f \in BagToSet(inflight) : UpdateAssetFindUnique(f)
    \/ \E f \in BagToSet(inflight) : UpdateAssetWrite(f)
    \/ \E id \in IdParams : DeleteAssetStart(HeaderOf(Alice, now), id)
    \/ \E f \in BagToSet(inflight) : DeleteAssetFindUnique(f)
    \/ \E f \in BagToSet(inflight) : DeleteAssetWrite(f)

SpecIds == InitAsset /\ [][NextIds]_vars

-----------------------------------------------------------------------------
(* SpecGate: the routes under /api/assets as the gate sees them: requests  *)
(* with a header the gate turns away, next to the requests of one user     *)
(* whose token it accepts.                                                 *)

GateHeaders(ms) == BadHeaders(ms) \cup {Bearer(generateToken(TokenPayload(Alice), ms))}

NextGate ==
    \/ \E hdr \in GateHeaders(now) : GetAssetsStart(hdr)
    \/ \E f \in BagToSet(inflight) : GetAssetsFindMany(f)
    \/ \E hdr \in GateHeaders(now) : AddAssetStart(hdr, AnyAddBody)
    \/ \E f \in BagToSet(inflight) : AddAssetFindUnique(f)
    \/ \E f \in BagToSet(inflight) : AddAssetCreate(f)
    \/ \E hdr \in GateHeaders(now) : UpdateAssetStart(hdr, AnyId, AnyUpdateBody)
    \/ \E f \in BagToSet(inflight) : UpdateAssetFindUnique(f)
    \/ \E f \in BagToSet(inflight) : UpdateAssetWrite(f)
    \/ \E hdr \in GateHeaders(now) : DeleteAssetStart(hdr, AnyId)
    \/ \E f \in BagToSet(inflight) : DeleteAssetFindUnique(f)
    \/ \E f \in BagToSet(inflight) : DeleteAssetWrite(f)

SpecGate == InitAsset /\ [][NextGate]_vars

-----------------------------------------------------------------------------
(* SpecList: GET /api/assets next to the requests that fill and empty the  *)
(* lists of two users, as the clock advances between them and while they   *)
(* wait for the store, past the expiry of the tokens they carry.           *)

\* The instant, after the start of SpecList, at which the tokens issued at the
\* start have expired.
ListClockPoints == {2 * ExpiryMs + 1000}

ListBodies ==
    [symbol : {Str(<<"a">>), Str(<<"b">>)},
     name : {Str("Apple")},
     type : {Str("stock")},
     notes : {Undefined}]

NextList ==
    \/ \E hdr \in GoodHeaders(now) : GetAssetsStart(hdr)
    \/ \E f \in BagToSet(inflight) : GetAssetsFindMany(f)
    \/ \E body \in ListBodies : AddAssetStart(HeaderOf(Alice, now), body)
    \/ AddAssetStart(HeaderOf(Bob, now), AnyAddBody)
    \/ \E f \in BagToSet(inflight) : AddAssetFindUnique(f)
    \/ \E f \in BagToSet(inflight) : AddAssetCreate(f)
    \/ DeleteAssetStart(HeaderOf(Alice, now), AnyId)
    \/ \E f \in BagToSet(inflight) : DeleteAssetFindUnique(f)
    \/ \E f \in BagToSet(inflight) : DeleteAssetWrite(f)
    \/ \E t \in ListClockPoints : Tick(t)

SpecList == InitAsset /\ [][NextList]_vars

-----------------------------------------------------------------------------
(* SpecUpdate: PUT /api/assets/:id by a user, next to the asset of another *)
(* user, each request sent after the response to the one before: no two    *)
(* handlers are suspended at the same time.  The bodies carry any subset   *)
(* of name, type and notes, empty and null values, and keys the handler    *)
(* does not read.                                                          *)

\* No handler is suspended at an await.
Idle == inflight = EmptyBag

UpdateSeedBodies ==
    [symbol : {Str(<<"a">>)},
     name : {Str("Apple")},
     type : {Str("stock")},
     notes : {Undefined, Str("memo")}]

PartialBodies ==
    [name : {Undefined, Str(""), Str("Apple Inc")},
     type : {Undefined, Str("etf")},
     notes : {Undefined, Null, Str(""), Str(" "), Str("memo 2")},
     id : {Undefined},
     symbol : {Undefined},
     userId : {Undefined}]
    \cup
    [name : {Undefined, Str("Apple Inc")},
     type : {Undefined},
     notes : {Undefined},
     id : {Num(2)},
     symbol : {Str(<<"b">>)},
     userId : {Num(2)}]

NextUpdate ==
    \/ \E body \in UpdateSeedBodies : Idle /\ AddAssetStart(HeaderOf(Alice, now), body)
    \/ Idle /\ AddAssetStart(HeaderOf(Bob, now), AnyAddBody)
    \/ \E f \in BagToSet(inflight) : AddAssetFindUnique(f)
    \/ \E f \in BagToSet(inflight) : AddAssetCreate(f)
    \/ \E id \in ListIds, body \in PartialBodies :
          Idle /\ UpdateAssetStart(HeaderOf(Alice, now), id, body)
    \/ \E f \in BagToSet(inflight) : UpdateAssetFindUnique(f)
    \/ \E f \in BagToSet(inflight) : UpdateAssetWrite(f)

SpecUpdate == InitAsset /\ [][NextUpdate]_vars

-----------------------------------------------------------------------------
(* SpecOverlap: PUT /api/assets/:id by the owner with two bodies that      *)
(* supply different fields, the requests overlapping at their awaits.      *)

NameOnlyBody == [name |-> Str("Apple Inc"), type |-> Undefined, notes |-> Undefined]
NotesOnlyBody == [name |-> Undefined, type |-> Undefined, notes |-> Str("memo 2")]

NextOverlap ==
    \/ AddAssetStart(HeaderOf(Alice, now), AnyAddBody)
    \/ \E f \in BagToSet(inflight) : AddAssetFindUnique(f)
    \/ \E f \in BagToSet(inflight) : AddAssetCreate(f)
    \/ \E body \in {NameOnlyBody, NotesOnlyBody} :
          UpdateAssetStart(HeaderOf(Alice, now), AnyId, body)
    \/ \E f \in BagToSet(inflight) : UpdateAssetFindUnique(f)
    \/ \E f \in BagToSet(inflight) : UpdateAssetWrite(f)

SpecOverlap == InitAsset /\ [][NextOverlap]_vars

-----------------------------------------------------------------------------
(* SpecFrame: the routes under /api/auth and /api/assets together, with    *)
(* requests of each route that are refused (validation, conflict, wrong    *)
(* credentials, no token, not found) next to requests that succeed.        *)

FrameRegisterBodies ==
    {[email |-> Str("c@x"), username |-> Str("carol"), password |-> Str("secret")],
     [email |-> Str("a@x"), username |-> Str("carol"), password |-> Str("secret")],
     [email |-> Str("c@x"), username |-> Str("carol"), password |-> Str("short")],
     [email |-> Undefined, username |-> Str("carol"), password |-> Str("secret")]}

FrameLoginBodies ==
    {[emailOrUsername |-> Str("alice"), password |-> Str("secret")],
     [emailOrUsername |-> Str("alice"), password |-> Str("hunter22")],
     [emailOrUsername |-> Str("nobody"), password |-> Str("secret")],
     [emailOrUsername |-> Str("alice"), password |-> Undefined]}

FrameHeaders(ms) == {NoHeader, HeaderOf(Alice, ms)}

FrameAddBodies ==
    {AnyAddBody, [AnyAddBody EXCEPT !.symbol = Undefined]}

NextFrame ==
    \/ \E body \in FrameRegisterBodies : RegisterStart(body)
    \/ \E f \in BagToSet(inflight) : RegisterFindFirst(f)
    \/ \E f \in BagToSet(inflight) : RegisterHashPassword(f)
    \/ \E f \in BagToSet(inflight) : RegisterCreate(f)
    \/ \E f \in BagToSet(inflight) : RegisterRespond(f)
    \/ \E body \in FrameLoginBodies : LoginStart(body)
    \/ \E f \in BagToSet(inflight) : LoginFindFirst(f)
    \/ \E f \in BagToSet(inflight) : LoginComparePassword(f)
    \/ \E hdr \in FrameHeaders(now), body \in FrameAddBodies : AddAssetStart(hdr, body)
    \/ \E f \in BagToSet(inflight) : AddAssetFindUnique(f)
    \/ \E f \in BagToSet(inflight) : AddAssetCreate(f)
    \/ \E hdr \in FrameHeaders(now) : UpdateAssetStart(hdr, AnyId, AnyUpdateBody)
    \/ \E f \in BagToSet(inflight) : UpdateAssetFindUnique(f)
    \/ \E f \in BagToSet(inflight) : UpdateAssetWrite(f)
    \/ \E hdr \in FrameHeaders(now) : DeleteAssetStart(hdr, AnyId)
    \/ \E f \in BagToSet(inflight) : DeleteAssetFindUnique(f)
    \/ \E f \in BagToSet(inflight) : DeleteAssetWrite(f)

SpecFrame == InitAsset /\ [][NextFrame]_vars

-----------------------------------------------------------------------------
(* SpecAuth: POST /api/auth/register and POST /api/auth/login on an empty  *)
(* User table.  A username may be spelled like an email: no format is      *)
(* checked.                                                                *)

RegisterBodies ==
    {[email |-> Str("a@x"), username |-> Str("alice"), password |-> Str("secret")],
     [email |-> Str("b@x"), username |-> Str("a@x"), password |-> Str("hunter22")],
     [email |-> Str("a@x"), username |-> Str("a@x"), password |-> Str("secret")],
     [email |-> Str("b@x"), username |-> Str("alice"), password |-> Str("secret")],
     [email |-> Undefined, username |-> Str("alice"), password |-> Str("secret")],
     [email |-> Str("a@x"), username |-> Str(""), password |-> Str("secret")],
     [email |-> Str("a@x"), username |-> Str("alice"), password |-> Undefined],
     [email |-> Str("a@x"), username |-> Str("alice"), password |-> Str("short")]}

LoginBodies ==
    [emailOrUsername : {Str("a@x"), Str("nobody")},
     identifier : {Undefined},
     password : {Str(""), Str("secret"), Str("hunter22")}]
    \cup
    [emailOrUsername : {Undefined},
     identifier : {Str("alice")},
     password : {Str("secret")}]

InitAuth ==
    /\ now = 0
    /\ InitCommon
    /\ users = {}
    /\ nextUserId = 1

NextAuth ==
    \/ \E body \in RegisterBodies : RegisterStart(body)
    \/ \E f \in BagToSet(inflight) : RegisterFindFirst(f)
    \/ \E f \in BagToSet(inflight) : RegisterHashPassword(f)
    \/ \E f \in BagToSet(inflight) : RegisterCreate(f)
    \/ \E f \in BagToSet(inflight) : RegisterRespond(f)
    \/ \E body \in LoginBodies : LoginStart(body)
    \/ \E f \in BagToSet(inflight) : LoginFindFirst(f)
    \/ \E f \in BagToSet(inflight) : LoginComparePassword(f)

SpecAuth == InitAuth /\ [][NextAuth]_vars

-----------------------------------------------------------------------------
(* SpecClock: POST /api/auth/register on an empty User table as the clock  *)
(* advances, in milliseconds, while the handlers wait: the insert and the  *)
(* signing of the token may fall in different seconds.                     *)

ClockRegisterBodies ==
    {[email |-> Str("a@x"), username |-> Str("alice"), password |-> Str("secret")],
     [email |-> Str("b@x"), username |-> Str("bob"), password |-> Str("hunter22")]}

RegisterClockPoints == {500, 1000, 1400}

NextClock ==
    \/ \E body \in ClockRegisterBodies : RegisterStart(body)
    \/ \E f \in BagToSet(inflight) : RegisterFindFirst(f)
    \/ \E f \in BagToSet(inflight) : RegisterHashPassword(f)
    \/ \E f \in BagToSet(inflight) : RegisterCreate(f)
    \/ \E f \in BagToSet(inflight) : RegisterRespond(f)
    \/ \E t \in RegisterClockPoints : Tick(t)

SpecClock == InitAuth /\ [][NextClock]_vars

-----------------------------------------------------------------------------
(* SpecToken: generateToken and verifyToken as the clock advances, in      *)
(* milliseconds, over the instants around a token's issue and its expiry.  *)

ClockPoints ==
    {0, 500, 1000, 1500}
    \cup {ExpiryMs - 3600000}
    \cup {ExpiryMs + d : d \in {-1000, -500, 0, 500, 1000, 1500, 2000}}

\* The tokens presented for verification: the issued ones, the same claims
\* signed with another key, and a string that is no JWT.
PresentedTokens ==
    {i.token : i \in issued}
    \cup {[i.token EXCEPT !.key = OtherKey] : i \in issued}
    \cup {Garbage}

InitToken ==
    /\ now = 0
    /\ InitCommon
    /\ users = SeedUsers
    /\ nextUserId = 3

NextToken ==
    \/ \E u \in SeedUsers : IssueToken(TokenPayload(u))
    \/ \E token \in PresentedTokens : VerifyToken(token)
    \/ \E t \in ClockPoints : Tick(t)

SpecToken == InitToken /\ [][NextToken]_vars

-----------------------------------------------------------------------------
(* Properties of the asset controller and the gate (SpecAsset, SpecCase,   *)
(* SpecGate).                                                              *)

\* A response was sent in this step.
Responded == resp'.seq # resp.seq

\* The response of this step is the return of a handler that was suspended
\* at pc.
AnsweredFrom(pc) ==
    \E f \in BagToSet(inflight) :
        /\ f.pc = pc
        /\ f.req = resp'.req
        /\ f.at = resp'.at
        /\ inflight' = inflight (-) SetToBag({f})

\* The user id the gate attached to the request of the last response.
GateUserId(r) == authMiddleware(r.req.hdr, r.at).user.userId

AssetOps == {"getAssets", "addAsset", "updateAsset", "deleteAsset"}

\* C1: in every reachable state of the asset store, whatever the
\* interleaving of addAsset, updateAsset and deleteAsset requests, no two
\* stored assets have the same (userId, symbol) pair.
C1_UniqueUserSymbol ==
    \A a, b \in assets : (a.userId = b.userId /\ a.symbol = b.symbol) => a = b

\* C1 witness: an addAsset that passed the pre-check was refused by the store
\* because an overlapping request had inserted the same (userId, symbol).
C1_Witness ==
    /\ resp.req.op = "addAsset"
    /\ resp.res.status = 500
    /\ \E a \in assets :
          /\ a.userId = GateUserId(resp)
          /\ a.symbol = toUpperCase(resp.req.body.symbol)

\* C2 (as claimed): an addAsset whose insert the storage-layer uniqueness
\* constraint rejects, after an overlapping addAsset of the same user and
\* normalized symbol, answers with the Conflict outcome of the pre-check
\* (400, asset already in the list).
C2_RejectedInsertIsConflict ==
    [][\A f \in BagToSet(inflight) :
          (/\ f.pc = "addAsset.create"
           /\ inflight' = inflight (-) SetToBag({f})
           /\ \E a \in assets : a.userId = f.data.userId /\ a.symbol = f.data.symbol)
          => resp'.res = [status |-> 400, body |-> [error |-> ErrAssetExists]]]_vars

\* C3: an updateAsset or deleteAsset request that carries U1's verified
\* identity and the id of an asset owned by another user U2 is answered 404
\* (asset not found) and leaves the asset store as it was.
C3_CrossUserNotFound ==
    [][(/\ Responded
        /\ resp'.req.op \in {"updateAsset", "deleteAsset"}
        /\ authMiddleware(resp'.req.hdr, resp'.at).next
        /\ \E a \in assets : Num(a.id) = parseInt(resp'.req.id) /\ a.userId # GateUserId(resp'))
       => (/\ resp'.res = [status |-> 404, body |-> [error |-> ErrAssetNotFound]]
           /\ assets' = assets)]_vars

\* C3 witness: an updateAsset for an asset that is in the store and belongs to
\* another user has been answered.
C3_Witness ==
    /\ resp.req.op = "updateAsset"
    /\ authMiddleware(resp.req.hdr, resp.at).next
    /\ \E a \in assets : Num(a.id) = parseInt(resp.req.id) /\ a.userId # GateUserId(resp)

\* The verified identity of a registered user, as the gate hands it on.
IdentityOf(u) == verifyToken(generateToken(TokenPayload(u), now), now)

\* C4: for a requesting user and an asset id, updateAsset and deleteAsset
\* answer the same (status and body) in a store where the id exists and is
\* owned by another user as in the same store without that asset.
C4_Indistinguishable ==
    \A a \in assets, u \in SeedUsers, body \in UpdateBodies :
        a.userId # u.id =>
            /\ updateAssetCheck(assets, IdentityOf(u), Num(a.id), body)
                 = updateAssetCheck(assets \ {a}, IdentityOf(u), Num(a.id), body)
            /\ deleteAssetCheck(assets, IdentityOf(u), Num(a.id))
                 = deleteAssetCheck(assets \ {a}, IdentityOf(u), Num(a.id))

\* C4 witness: a deleteAsset for an asset that is in the store and belongs to
\* another user has been answered 404.
C4_Witness ==
    /\ resp.req.op = "deleteAsset"
    /\ resp.res.status = 404
    /\ authMiddleware(resp.req.hdr, resp.at).next
    /\ \E a \in assets : Num(a.id) = parseInt(resp.req.id) /\ a.userId # GateUserId(resp)

\* The header is 'Bearer <token>' with a well-formed token, signed with the
\* server's key, that has not expired at clock time ms.
ValidBearer(hdr, ms) ==
    /\ hdr.t = "header"
    /\ hdr.prefix = "Bearer "
    /\ hdr.rest.t = "jwt"
    /\ hdr.rest.key = JWT_SECRET
    /\ NumericDate(ms) < hdr.rest.exp

\* C10: a request to a route under /api/assets whose Authorization header is
\* absent, is not 'Bearer <token>', or carries a token that fails
\* verification is answered 401 with an error body only, no handler runs or
\* is suspended for it, and the asset store is unchanged.
C10_GateRejects ==
    [][(/\ Responded
        /\ resp'.req.op \in AssetOps
        /\ ~ValidBearer(resp'.req.hdr, resp'.at))
       => (/\ resp'.res.status = 401
           /\ DOMAIN resp'.res.body = {"error"}
           /\ assets' = assets
           /\ inflight' = inflight)]_vars

\* C10 witness: an addAsset request with an expired token has been answered
\* while the store holds an asset.
C10_Witness ==
    /\ resp.req.op = "addAsset"
    /\ resp.req.hdr = Bearer(generateToken(TokenPayload(Alice), resp.at - ExpiryMs))
    /\ resp.res.status = 401
    /\ assets # {}

-----------------------------------------------------------------------------
(* Properties of the asset controller (SpecList).                          *)

\* The elements of a list.
Range(l) == {l[i] : i \in 1 .. Len(l)}

\* C11: getAssets for owner U answers 200 with exactly the stored assets
\* whose userId is U, each once, none of another user and none missing,
\* newest creation time first; that is the empty list when U owns no asset.
\* The store is left as it was.
C11_ListOwnNewestFirst ==
    [][(/\ Responded
        /\ resp'.req.op = "getAssets"
        /\ authMiddleware(resp'.req.hdr, resp'.at).next)
       => LET own == {a \in assets : a.userId = GateUserId(resp')} IN
          /\ resp'.res.status = 200
          /\ DOMAIN resp'.res.body = {"assets"}
          /\ Range(resp'.res.body.assets) = own
          /\ Len(resp'.res.body.assets) = Cardinality(own)
          /\ \A i, j \in 1 .. Len(resp'.res.body.assets) :
                i < j => resp'.res.body.assets[i].createdAt >= resp'.res.body.assets[j].createdAt
          /\ (own = {} => resp'.res.body.assets = <<>>)
          /\ assets' = assets]_vars

\* C11 witness: a list of two assets created at different times has been
\* returned, the newer first.
C11_Witness ==
    /\ resp.req.op = "getAssets"
    /\ resp.res.status = 200
    /\ Len(resp.res.body.assets) = 2
    /\ resp.res.body.assets[1].createdAt > resp.res.body.assets[2].createdAt

-----------------------------------------------------------------------------
(* Properties of addAsset (SpecCase).                                      *)

\* Two characters are the same letter in either case, or the same character.
SameLetter(c, d) ==
    \/ c = d
    \/ {c, d} = {"a", "A"}
    \/ {c, d} = {"b", "B"}

\* Two character sequences differ at most in letter case.
DiffersOnlyInCase(s, t) ==
    /\ Len(s) = Len(t)
    /\ \A i \in 1 .. Len(s) : SameLetter(s[i], t[i])

\* A character sequence without a lower-case letter.
IsUpperCase(s) == \A i \in 1 .. Len(s) : s[i] \notin {"a", "b"}

\* C12: while a user holds an asset, an addAsset of that user whose symbol
\* differs from the stored one at most in letter case is answered with the
\* conflict (400) and goes no further; the asset a successful addAsset
\* stores has the upper-case form of the symbol supplied, and every stored
\* symbol is upper-case.
C12_CaseInsensitiveSymbol ==
    /\ \A u \in SeedUsers, body \in AddBodies :
          (/\ ~addAssetMissingField(body)
           /\ \E a \in assets : a.userId = u.id /\ DiffersOnlyInCase(a.symbol.v, body.symbol.v))
          => addAssetCheck(assets, IdentityOf(u), body)
               = [done |-> TRUE, res |-> [status |-> 400, body |-> [error |-> ErrAssetExists]]]
    /\ \A a \in assets : IsUpperCase(a.symbol.v)
    /\ (resp.req.op = "addAsset" /\ resp.res.status = 201)
          => /\ IsUpperCase(resp.res.body.asset.symbol.v)
             /\ DiffersOnlyInCase(resp.res.body.asset.symbol.v, resp.req.body.symbol.v)

\* C12 witness: an addAsset with a lower-case symbol has been answered with
\* the conflict while its user holds the asset of the upper-case symbol.
C12_Witness ==
    /\ resp.req.op = "addAsset"
    /\ resp.req.body.symbol = Str(<<"a">>)
    /\ resp.res = [status |-> 400, body |-> [error |-> ErrAssetExists]]
    /\ \E a \in assets : a.userId = GateUserId(resp) /\ a.symbol = Str(<<"A">>)

-----------------------------------------------------------------------------
(* Properties of updateAsset (SpecUpdate).                                 *)

\* An updateAsset request has been answered in this step with success.
UpdateSucceeded ==
    /\ Responded
    /\ resp'.req.op = "updateAsset"
    /\ resp'.res.status = 200

\* The row the answered request names, before and after the step.
TargetBefore == AssetFindUniqueById(assets, parseInt(resp'.req.id).v)
TargetAfter == AssetFindUniqueById(assets', parseInt(resp'.req.id).v)

\* C13 (as claimed): each of name, type and notes that the body of a
\* successful updateAsset supplies overwrites the stored value, and each it
\* omits keeps the stored value.
C13_SuppliedOverwrites ==
    [][UpdateSucceeded =>
          /\ TargetAfter.name
               = IF resp'.req.body.name # Undefined THEN resp'.req.body.name ELSE TargetBefore.name
          /\ TargetAfter.type
               = IF resp'.req.body.type # Undefined THEN resp'.req.body.type ELSE TargetBefore.type
          /\ TargetAfter.notes
               = IF resp'.req.body.notes # Undefined THEN resp'.req.body.notes ELSE TargetBefore.notes]_vars

\* C13 (amended): a name or type supplied as a non-empty string overwrites
\* the stored value, and one that is omitted, empty or null keeps it; notes
\* supplied with any value, the empty string and null included, overwrite
\* the stored notes, and omitted notes keep them.  The response carries the
\* row as stored.
C13_PartialUpdate ==
    [][UpdateSucceeded =>
          /\ TargetAfter.name
               = IF Truthy(resp'.req.body.name) THEN resp'.req.body.name ELSE TargetBefore.name
          /\ TargetAfter.type
               = IF Truthy(resp'.req.body.type) THEN resp'.req.body.type ELSE TargetBefore.type
          /\ TargetAfter.notes
               = IF resp'.req.body.notes # Undefined THEN resp'.req.body.notes ELSE TargetBefore.notes
          /\ resp'.res.body.asset = TargetAfter]_vars

\* C13 witness: an update supplying only notes has been answered, then an
\* update supplying only a name: the asset holds the new name, the type it
\* was created with and the notes of the earlier update.
C13_Witness ==
    /\ resp.req.op = "updateAsset"
    /\ resp.res.status = 200
    /\ resp.req.body.name = Str("Apple Inc")
    /\ resp.req.body.type = Undefined
    /\ resp.req.body.notes = Undefined
    /\ resp.res.body.asset.name = Str("Apple Inc")
    /\ resp.res.body.asset.type = Str("stock")
    /\ resp.res.body.asset.notes = Str("memo 2")
    /\ resp.res.body.asset \in assets

\* The notes a request supplies are the empty string or blanks.
BlankNotes(body) == body.notes \in {Str(""), Str(" ")}

\* C14 (as claimed): a successful updateAsset whose body supplies notes as an
\* empty or blank value leaves the asset with null notes, as addAsset stores
\* them for a request without notes; one whose body omits notes leaves the
\* stored notes as they were.
C14_BlankNotesClear ==
    [][UpdateSucceeded =>
          /\ BlankNotes(resp'.req.body)
               => TargetAfter.notes = addAssetCheck({}, IdentityOf(Alice), AnyAddBody).data.notes
          /\ resp'.req.body.notes = Undefined => TargetAfter.notes = TargetBefore.notes]_vars

\* C15: an updateAsset request, whatever its body holds and however it is
\* answered, leaves the store with the same rows by id, each with the owner
\* and symbol it had, and every row but the one it names as it was.
C15_UpdateFrame ==
    [][(Responded /\ resp'.req.op = "updateAsset") =>
          /\ {a.id : a \in assets'} = {a.id : a \in assets}
          /\ Cardinality(assets') = Cardinality(assets)
          /\ \A a \in assets : \E b \in assets' :
                /\ b.id = a.id
                /\ b.userId = a.userId
                /\ b.symbol = a.symbol
                /\ b.createdAt = a.createdAt
                /\ Num(a.id) # parseInt(resp'.req.id) => b = a]_vars

\* C15 witness: an update whose body carries an id, a symbol and a userId has
\* changed the name of an asset while the store holds another asset.
C15_Witness ==
    /\ resp.req.op = "updateAsset"
    /\ resp.res.status = 200
    /\ resp.req.body.symbol = Str(<<"b">>)
    /\ resp.req.body.userId = Num(2)
    /\ resp.res.body.asset.name = Str("Apple Inc")
    /\ resp.res.body.asset.userId = 1
    /\ Cardinality(assets) = 2

-----------------------------------------------------------------------------
(* Properties of deleteAsset (SpecIds).                                    *)

\* C16 (as claimed): a deleteAsset answered with success has removed the
\* owner's record, and a deleteAsset of an authenticated user for a numeric
\* id that removes no record, the id's record being gone already when the
\* request started or removed by an overlapping deleteAsset while it was
\* suspended, is answered 404 (asset not found).
C16_SecondDeleteNotFound ==
    [][(/\ Responded
        /\ resp'.req.op = "deleteAsset"
        /\ authMiddleware(resp'.req.hdr, resp'.at).next
        /\ parseInt(resp'.req.id) # NaN)
       => /\ resp'.res.status = 200
               => /\ \E a \in assets : Num(a.id) = parseInt(resp'.req.id) /\ a.userId = GateUserId(resp')
                  /\ ~ \E a \in assets' : Num(a.id) = parseInt(resp'.req.id)
          /\ (~ \E a \in assets : Num(a.id) = parseInt(resp'.req.id))
               => resp'.res = [status |-> 404, body |-> [error |-> ErrAssetNotFound]]]_vars

-----------------------------------------------------------------------------
(* Properties of overlapping updates (SpecOverlap).                        *)

\* C21 (as claimed): of two updateAsset requests of the owner on one asset,
\* one supplying only the name and one only the notes, both take effect
\* however their reads and writes interleave: when one of them is answered
\* with success and the asset already held the value the other wrote, the
\* asset holds both new values afterwards.
C21_DisjointUpdatesBothApply ==
    [][UpdateSucceeded =>
          /\ (resp'.req.body = NameOnlyBody /\ TargetBefore.notes = NotesOnlyBody.notes)
               => (TargetAfter.name = NameOnlyBody.name /\ TargetAfter.notes = NotesOnlyBody.notes)
          /\ (resp'.req.body = NotesOnlyBody /\ TargetBefore.name = NameOnlyBody.name)
               => (TargetAfter.name = NameOnlyBody.name /\ TargetAfter.notes = NotesOnlyBody.notes)]_vars

-----------------------------------------------------------------------------
(* Properties of the auth controller (SpecAuth, SpecClock).                *)

\* The login body passes the check of its required fields.
LoginFieldsPresent(body) == Truthy(body.emailOrUsername) /\ Truthy(body.password)

\* C5: a login request whose identifier matches no user and a login request
\* whose identifier matches a user but whose password is not that user's get
\* the identical response: 401 with the same error body.
C5_LoginIndistinguishable ==
    \A b1, b2 \in LoginBodies :
        \A u1 \in UserFindFirst(users, b1.emailOrUsername, b1.emailOrUsername),
           u2 \in UserFindFirst(users, b2.emailOrUsername, b2.emailOrUsername) :
            (/\ LoginFieldsPresent(b1)
             /\ LoginFieldsPresent(b2)
             /\ u1 = Null
             /\ u2 # Null
             /\ u2.password # hashPassword(b2.password))
            => (/\ login(u1, b1, now) = login(u2, b2, now)
                /\ login(u1, b1, now).status = 401)

\* C5 witness: a login with a stored user's email and another password has
\* been answered 401, and some identifier of the requests matches no user.
C5_Witness ==
    /\ resp.req.op = "login"
    /\ resp.res.status = 401
    /\ \E u \in users :
          /\ u.email = resp.req.body.emailOrUsername
          /\ u.password # hashPassword(resp.req.body.password)
    /\ \E b \in LoginBodies :
          /\ LoginFieldsPresent(b)
          /\ UserFindFirst(users, b.emailOrUsername, b.emailOrUsername) = {Null}

\* C6: in every reachable state of the user store, whatever the interleaving
\* of register requests, no two stored users share an email and no two share
\* a username.
C6_UniqueEmailUsername ==
    \A u, w \in users : (u.email = w.email \/ u.username = w.username) => u = w

\* C6 witness: a register that passed the lookup was refused by the store
\* because an overlapping register had inserted its email or username.
C6_Witness ==
    /\ resp.req.op = "register"
    /\ resp.res.status = 500
    /\ \E u \in users :
          u.email = resp.req.body.email \/ u.username = resp.req.body.username

\* The register body passes the checks of its required fields and of the
\* password length.
RegisterFieldsValid(body) ==
    /\ Truthy(body.email)
    /\ Truthy(body.username)
    /\ Truthy(body.password)
    /\ Len(body.password.v) >= 6

\* C7: a register request (its fields present, its password long enough)
\* whose email is a stored user's and whose username is unused when its
\* lookup runs is answered on return from the lookup with the email-taken
\* conflict; one whose username is a stored user's and whose email is unused
\* with the username-taken conflict; neither creates a user.
C7_ConflictVariants ==
    [][(/\ Responded
        /\ AnsweredFrom("register.findFirst")
        /\ resp'.req.op = "register"
        /\ RegisterFieldsValid(resp'.req.body))
       => LET body == resp'.req.body
              emailStored == \E u \in users : u.email = body.email
              usernameStored == \E u \in users : u.username = body.username
          IN /\ (emailStored /\ ~usernameStored)
                  => (/\ resp'.res = [status |-> 400, body |-> [error |-> ErrEmailTaken]]
                      /\ users' = users)
             /\ (usernameStored /\ ~emailStored)
                  => (/\ resp'.res = [status |-> 400, body |-> [error |-> ErrUsernameTaken]]
                      /\ users' = users)]_vars

\* C7 witness: a register with a stored username and an unused email has been
\* answered with a conflict.
C7_Witness ==
    /\ resp.req.op = "register"
    /\ resp.res.status = 400
    /\ RegisterFieldsValid(resp.req.body)
    /\ \E u \in users : u.username = resp.req.body.username
    /\ ~ \E u \in users : u.email = resp.req.body.email

\* C8: the token in the response of a successful register verifies to the
\* claims {userId, email, username} of the row the request persisted, which
\* is the row with the request's email and username and the id in the
\* response.
C8_RegisterTokenClaims ==
    (resp.req.op = "register" /\ resp.res.status = 201) =>
        LET decoded == verifyToken(resp.res.body.token, now) IN
        /\ decoded.ok
        /\ \E u \in users :
              /\ u.email = resp.req.body.email
              /\ u.username = resp.req.body.username
              /\ u.id = resp.res.body.user.id
              /\ decoded.userId = u.id
              /\ decoded.email = u.email
              /\ decoded.username = u.username

\* C8 witness: a second user has registered and the registration has been
\* answered 201 with a token signed in a later second than the one in which
\* the row was inserted.
C8_Witness ==
    /\ resp.req.op = "register"
    /\ resp.res.status = 201
    /\ resp.res.body.user.id = 2
    /\ resp.res.body.token.iat > NumericDate(resp.res.body.user.createdAt)

\* C17 (as claimed): a login whose body holds, under the field name
\* identifier, a stored user's email or username, and that user's password,
\* is answered as the same values under the field name emailOrUsername are:
\* 200 with a token.
C17_IdentifierAccepted ==
    [][(/\ Responded
        /\ resp'.req.op = "login"
        /\ resp'.req.body.emailOrUsername = Undefined
        /\ \E u \in users :
              /\ resp'.req.body.identifier \in {u.email, u.username}
              /\ comparePassword(resp'.req.body.password, u.password))
       => /\ resp'.res.status = 200
          /\ \E u \in UserFindFirst(users, resp'.req.body.identifier, resp'.req.body.identifier) :
                resp'.res = login(u, [emailOrUsername |-> resp'.req.body.identifier,
                                      password |-> resp'.req.body.password], now)]_vars

\* A field of a request body is absent, null or the empty string.
FieldMissing(x) == x \in {Undefined, Null, Str("")}

\* The register body lacks a field, or its password has fewer than 6
\* characters.
RegisterInvalid(body) ==
    \/ FieldMissing(body.email)
    \/ FieldMissing(body.username)
    \/ FieldMissing(body.password)
    \/ Len(body.password.v) < 6

\* The places at which register waits.
RegisterPcs ==
    {"register.findFirst", "register.hashPassword", "register.create",
     "register.created"}

\* C18: a register request that lacks email, username or password, or whose
\* password has fewer than 6 characters, is answered 400 with a validation
\* error, creates no user and goes no further; no suspended register holds
\* such a request; and a request with all fields and a password of exactly 6
\* characters passes the checks up to the create when no stored user matches.
C18_RegisterValidation ==
    [][/\ (Responded /\ resp'.req.op = "register" /\ RegisterInvalid(resp'.req.body))
           => /\ resp'.res.status = 400
              /\ resp'.res.body \in {[error |-> ErrRegisterRequired], [error |-> ErrPasswordShort]}
              /\ users' = users
              /\ nextUserId' = nextUserId
              /\ inflight' = inflight
       /\ \A f \in BagToSet(inflight') :
             f.pc \in RegisterPcs => ~RegisterInvalid(f.req.body)
       /\ \A body \in RegisterBodies :
             (~RegisterInvalid(body) /\ Len(body.password.v) = 6)
             => ~registerCheck(Null, body).done]_vars

\* C18 witness: a register with all three fields and a password of 5
\* characters has been answered with the password-length error while a
\* user is stored.
C18_Witness ==
    /\ resp.req.op = "register"
    /\ ~FieldMissing(resp.req.body.email)
    /\ ~FieldMissing(resp.req.body.username)
    /\ resp.req.body.password = Str("short")
    /\ resp.res = [status |-> 400, body |-> [error |-> ErrPasswordShort]]
    /\ users # {}

\* C19 (as claimed): a register request (its fields present, its password
\* long enough) whose email is a stored user's is answered by the lookup's
\* branch with the email-taken conflict, also when its username is the
\* username of another stored user, whichever matching row the lookup
\* returned.
C19_EmailBeforeUsername ==
    [][(/\ Responded
        /\ AnsweredFrom("register.findFirst")
        /\ resp'.req.op = "register"
        /\ RegisterFieldsValid(resp'.req.body)
        /\ \E u \in users : u.email = resp'.req.body.email)
       => resp'.res = [status |-> 400, body |-> [error |-> ErrEmailTaken]]]_vars

\* The stored users who have the identifier as their email or username and
\* the password as their own.
LoginOwners(body) ==
    {u \in users : /\ body.emailOrUsername \in {u.email, u.username}
                   /\ comparePassword(body.password, u.password)}

\* C20 (as claimed): a login with a stored user's own email or username and
\* that user's password is answered 200 with a token that carries that
\* user's id, also when the identifier is the username or email of another
\* stored user, whichever matching row the lookup returned.
C20_EveryUserCanLogIn ==
    [][(/\ Responded
        /\ resp'.req.op = "login"
        /\ LoginFieldsPresent(resp'.req.body)
        /\ LoginOwners(resp'.req.body) # {})
       => /\ resp'.res.status = 200
          /\ verifyToken(resp'.res.body.token, now).ok
          /\ verifyToken(resp'.res.body.token, now).userId
               \in {u.id : u \in LoginOwners(resp'.req.body)}]_vars

-----------------------------------------------------------------------------
(* Properties of all routes (SpecFrame).                                   *)

\* The places at which a handler waits for a read of a table.
ReadPcs ==
    {"addAsset.findUnique", "updateAsset.findUnique", "deleteAsset.findUnique",
     "register.findFirst", "login.findFirst", "login.comparePassword"}

\* C22: a register, login, addAsset, updateAsset or deleteAsset request
\* answered with a 4xx status is answered before its handler has reached any
\* write, at its arrival or on return from a read, and the step that answers
\* it leaves the User table, the Asset table and their id counters as they
\* were: the request has changed neither table.
C22_RefusedLeavesStores ==
    [][(/\ Responded
        /\ resp'.req.op \in {"register", "login", "addAsset", "updateAsset", "deleteAsset"}
        /\ resp'.res.status \in 400 .. 499)
       => /\ users' = users
          /\ assets' = assets
          /\ nextUserId' = nextUserId
          /\ nextAssetId' = nextAssetId
          /\ \/ inflight' = inflight
             \/ \E pc \in ReadPcs : AnsweredFrom(pc)]_vars

\* C22 witness: a register has been answered with the email-taken conflict
\* while the Asset table holds a row and another register is suspended
\* before its insert.
C22_Witness ==
    /\ resp.req.op = "register"
    /\ resp.res = [status |-> 400, body |-> [error |-> ErrEmailTaken]]
    /\ assets # {}
    /\ PendingRegisters = 1

-----------------------------------------------------------------------------
(* Properties of the token service (SpecToken).                            *)

\* The last verification returned the claims that payload holds.
ReturnsClaims(payload) ==
    /\ verified.result.userId = payload.userId
    /\ verified.result.email = payload.email
    /\ verified.result.username = payload.username

\* C9 (as claimed): a token issued at time T verifies at every time strictly
\* before T + 7 days, returning the claims signed, and fails at every time
\* at or after T + 7 days.
C9_ExactWindow ==
    \A i \in issued :
        verified.token = i.token =>
            /\ verified.at < i.at + ExpiryMs
                 => (verified.result.ok /\ ReturnsClaims(i.token.payload))
            /\ verified.at >= i.at + ExpiryMs => ~verified.result.ok

\* C9 (amended): issue time and verification time count in whole seconds of
\* the millisecond clock: a token issued at T verifies at time t exactly when
\* floor(t / 1s) < floor(T / 1s) + 7 days.  So it verifies at every time up
\* to T + 7 days - 1 second, returning the claims signed, and fails at every
\* time at or after T + 7 days.
C9_WholeSecondWindow ==
    \A i \in issued :
        verified.token = i.token =>
            /\ verified.result.ok
                 <=> (verified.at \div 1000 < (i.at \div 1000) + ExpiresInSec)
            /\ verified.result.ok => ReturnsClaims(i.token.payload)
            /\ verified.at + 1000 <= i.at + ExpiryMs => verified.result.ok
            /\ verified.at >= i.at + ExpiryMs => ~verified.result.ok

\* C9 witness: a token issued at time 0 has been verified successfully 6 days
\* and 23 hours later.
C9_Witness ==
    \E i \in issued :
        /\ i.at = 0
        /\ verified.token = i.token
        /\ verified.at = ExpiryMs - 3600000
        /\ verified.result.ok

=============================================================================
